---- MODULE Spec2Model ----
(***************************************************************************)
(* Package identity, canonical codec, display and build fingerprint of     *)
(* src/cargo/core/package_id.rs.                                           *)
(*                                                                         *)
(* Strings are sequences of one-character strings, so that formatting,     *)
(* the decoder's regular expression and semantic-version parsing are       *)
(* computed character by character.                                        *)
(***************************************************************************)
EXTENDS Naturals, Sequences, FiniteSets, TLC

VARIABLES pc, argA, argB, a, b, str, strFrom, dec, shown,
          isEq, ord, hashA, hashB, encA, encB, ma, mb, ha, hb

vars == <<pc, argA, argB, a, b, str, strFrom, dec, shown,
          isEq, ord, hashA, hashB, encA, encB, ma, mb, ha, hb>>

-----------------------------------------------------------------------------
(* Bounds of the model.                                                    *)

\* longest package name drawn from NameChars
MaxNameLen == 2

\* longest sequence of values mixed into one Metadata
MaxMix == 2

-----------------------------------------------------------------------------
(* Characters and strings.                                                 *)

\* the characters the model uses, in increasing byte order (str's Ord)
Ascii == <<" ", "(", ")", "+", "-", ".", "/", "0", "1", "2", "3", "4", "5", "6", "7", "8", "9", ":", "a", "b", "c", "d", "e", "f", "g", "h", "i", "j", "k", "l", "m", "n", "o", "p", "q", "r", "s", "t", "u", "v", "w", "x", "y", "z">>

Digits == {"0", "1", "2", "3", "4", "5", "6", "7", "8", "9"}

Letters == {Ascii[i] : i \in 19..Len(Ascii)}

Byte(c) == CHOOSE i \in 1..Len(Ascii) : Ascii[i] = c

Min(S) == CHOOSE x \in S : \A y \in S : x <= y

\* core::cmp::Ordering, as Less / Equal / Greater
NatCmp(m, n) == IF m < n THEN "Less" ELSE IF m > n THEN "Greater" ELSE "Equal"

\* Ord for str: lexicographic by bytes, a proper prefix is Less
RECURSIVE StrCmp(_, _)
StrCmp(s, u) ==
    IF s = <<>> /\ u = <<>> THEN "Equal"
    ELSE IF s = <<>> THEN "Less"
    ELSE IF u = <<>> THEN "Greater"
    ELSE IF Head(s) # Head(u) THEN NatCmp(Byte(Head(s)), Byte(Head(u)))
    ELSE StrCmp(Tail(s), Tail(u))

\* position of the first c in s, 0 when there is none
IndexOf(s, c) ==
    IF \E i \in 1..Len(s) : s[i] = c
    THEN Min({i \in 1..Len(s) : s[i] = c})
    ELSE 0

RECURSIVE Split(_, _)
Split(s, c) ==
    LET i == IndexOf(s, c)
    IN  IF i = 0 THEN <<s>>
        ELSE <<SubSeq(s, 1, i - 1)>> \o Split(SubSeq(s, i + 1, Len(s)), c)

RECURSIVE Join(_, _)
Join(parts, c) ==
    IF parts = <<>> THEN <<>>
    ELSE IF Len(parts) = 1 THEN parts[1]
    ELSE parts[1] \o <<c>> \o Join(Tail(parts), c)

RECURSIVE BoundedSeq(_, _)
BoundedSeq(S, n) ==
    IF n = 0 THEN {<<>>}
    ELSE LET shorter == BoundedSeq(S, n - 1)
         IN  shorter \cup {Append(s, x) : s \in {q \in shorter : Len(q) = n - 1}, x \in S}

-----------------------------------------------------------------------------
(* semver::Version, the collaborator behind `version: semver::Version`.    *)

IsDigits(s) == s # <<>> /\ \A i \in 1..Len(s) : s[i] \in Digits

RECURSIVE NatOf(_)
NatOf(s) ==
    IF s = <<>> THEN 0
    ELSE NatOf(SubSeq(s, 1, Len(s) - 1)) * 10 + (Byte(s[Len(s)]) - Byte("0"))

RECURSIVE NatToStr(_)
NatToStr(n) ==
    IF n < 10 THEN <<Ascii[Byte("0") + n]>>
    ELSE NatToStr(n \div 10) \o <<Ascii[Byte("0") + (n % 10)]>>

\* semver::Identifier: Numeric(u64) | AlphaNumeric(String)
Numeric(n) == [kind |-> "Numeric", n |-> n, s |-> <<>>]

AlphaNumeric(s) == [kind |-> "AlphaNumeric", n |-> 0, s |-> s]

IsIdentifierStr(s) ==
    s # <<>> /\ \A i \in 1..Len(s) : s[i] \in Digits \cup Letters \cup {"-"}

ParseIdentifier(s) == IF IsDigits(s) THEN Numeric(NatOf(s)) ELSE AlphaNumeric(s)

IdentifierToStr(x) == IF x.kind = "Numeric" THEN NatToStr(x.n) ELSE x.s

\* derived Ord of the enum: Numeric < AlphaNumeric, then the payload
IdentifierCmp(x, y) ==
    IF x.kind # y.kind THEN (IF x.kind = "Numeric" THEN "Less" ELSE "Greater")
    ELSE IF x.kind = "Numeric" THEN NatCmp(x.n, y.n)
    ELSE StrCmp(x.s, y.s)

RECURSIVE IdentifiersCmp(_, _)
IdentifiersCmp(p, q) ==
    IF p = <<>> /\ q = <<>> THEN "Equal"
    ELSE IF p = <<>> THEN "Less"
    ELSE IF q = <<>> THEN "Greater"
    ELSE IF IdentifierCmp(Head(p), Head(q)) # "Equal" THEN IdentifierCmp(Head(p), Head(q))
    ELSE IdentifiersCmp(Tail(p), Tail(q))

Version(major, minor, patch, pre, build) ==
    [major |-> major, minor |-> minor, patch |-> patch, pre |-> pre, build |-> build]

NoVersion == Version(0, 0, 0, <<>>, <<>>)

ParseIdentifiers(s) ==
    LET parts == Split(s, ".")
    IN  [ok |-> \A i \in 1..Len(parts) : IsIdentifierStr(parts[i]),
         ids |-> [i \in 1..Len(parts) |-> ParseIdentifier(parts[i])]]

\* semver::Version::parse: MAJOR.MINOR.PATCH[-pre][+build]
VersionParse(s) ==
    LET plus  == IndexOf(s, "+")
        main  == IF plus = 0 THEN s ELSE SubSeq(s, 1, plus - 1)
        bld   == IF plus = 0 THEN <<>> ELSE SubSeq(s, plus + 1, Len(s))
        dash  == IndexOf(main, "-")
        core  == IF dash = 0 THEN main ELSE SubSeq(main, 1, dash - 1)
        prs   == IF dash = 0 THEN <<>> ELSE SubSeq(main, dash + 1, Len(main))
        nums  == Split(core, ".")
        pre   == ParseIdentifiers(prs)
        build == ParseIdentifiers(bld)
        ok    == /\ Len(nums) = 3
                 /\ \A i \in 1..Len(nums) : IsDigits(nums[i])
                 /\ (dash # 0 => pre.ok)
                 /\ (plus # 0 => build.ok)
    IN  IF ok
        THEN [ok |-> TRUE,
              v  |-> Version(NatOf(nums[1]), NatOf(nums[2]), NatOf(nums[3]),
                             IF dash = 0 THEN <<>> ELSE pre.ids,
                             IF plus = 0 THEN <<>> ELSE build.ids)]
        ELSE [ok |-> FALSE, v |-> NoVersion]

\* Show for semver::Version (to_string)
VersionToString(v) ==
    NatToStr(v.major) \o <<".">> \o NatToStr(v.minor) \o <<".">> \o NatToStr(v.patch)
    \o (IF v.pre = <<>> THEN <<>>
        ELSE <<"-">> \o Join([i \in 1..Len(v.pre) |-> IdentifierToStr(v.pre[i])], "."))
    \o (IF v.build = <<>> THEN <<>>
        ELSE <<"+">> \o Join([i \in 1..Len(v.build) |-> IdentifierToStr(v.build[i])], "."))

\* Ord for semver::Version: numeric by major, minor, patch; a version with a
\* pre-release is less than the same version without one; build metadata
\* takes no part in precedence
VersionCmp(v, w) ==
    IF v.major # w.major THEN NatCmp(v.major, w.major)
    ELSE IF v.minor # w.minor THEN NatCmp(v.minor, w.minor)
    ELSE IF v.patch # w.patch THEN NatCmp(v.patch, w.patch)
    ELSE IF v.pre = <<>> /\ w.pre = <<>> THEN "Equal"
    ELSE IF v.pre = <<>> THEN "Greater"
    ELSE IF w.pre = <<>> THEN "Less"
    ELSE IdentifiersCmp(v.pre, w.pre)

\* PartialEq for semver::Version: build metadata is ignored, as in its order
VersionEq(v, w) ==
    /\ v.major = w.major
    /\ v.minor = w.minor
    /\ v.patch = w.patch
    /\ v.pre = w.pre

-----------------------------------------------------------------------------
(* core::source::SourceId, the collaborator behind `source_id: SourceId`:  *)
(* a value made from its canonical url, giving that url back.              *)

SourceId(url) == [url |-> url]

from_url(s) == SourceId(s)

to_url(sid) == sid.url

\* Show for SourceId
SourceIdToString(sid) == sid.url

SourceIdCmp(s, u) == StrCmp(s.url, u.url)

-----------------------------------------------------------------------------
(* PackageId.                                                              *)

\* struct PackageIdInner { name, version, source_id }
PackageId(name, version, source_id) ==
    [name |-> name, version |-> version, source_id |-> source_id]

NoPackageId == PackageId(<<>>, NoVersion, SourceId(<<>>))

\* how a call ended: "Ok" with id, "Err" with the error (kind, arg), or
\* "Panic" with the panic message as kind; "None" before the call
Outcome(tag, id, kind, arg) ==
    [tag |-> tag, id |-> id, msg |-> [kind |-> kind, arg |-> arg]]

NoOutcome == Outcome("None", NoPackageId, "", <<>>)

encode_no_source(p) ==
    p.name \o <<" ">> \o VersionToString(p.version)

\* Encodable::encode: format!("{} {} ({})", name, version, source_id.to_url())
encode(p) ==
    p.name \o <<" ">> \o VersionToString(p.version)
    \o <<" ", "(">> \o to_url(p.source_id) \o <<")">>

\* Regex ^([^ ]+) ([^ ]+) \(([^\)]+)\)$ : the three captures, or no match
RegexCaptures(s) ==
    LET i    == IndexOf(s, " ")
        rest == SubSeq(s, i + 1, Len(s))
        k    == IndexOf(rest, " ")
        j    == i + k
        body == SubSeq(s, j + 2, Len(s) - 1)
        matched == /\ i > 1
                   /\ k > 1
                   /\ Len(s) >= j + 3
                   /\ s[j + 1] = "("
                   /\ s[Len(s)] = ")"
                   /\ IndexOf(body, ")") = 0
    IN  IF matched
        THEN [matched |-> TRUE, at1 |-> SubSeq(s, 1, i - 1),
              at2 |-> SubSeq(s, i + 1, j - 1), at3 |-> body]
        ELSE [matched |-> FALSE, at1 |-> <<>>, at2 |-> <<>>, at3 |-> <<>>]

\* Decodable::decode: both expect() calls abort on failure
decode(s) ==
    LET captures == RegexCaptures(s)
        version  == VersionParse(captures.at2)
    IN  IF ~captures.matched
        THEN Outcome("Panic", NoPackageId, "invalid serialized PackageId", <<>>)
        ELSE IF ~version.ok
        THEN Outcome("Panic", NoPackageId, "invalid version", <<>>)
        ELSE Outcome("Ok", PackageId(captures.at1, version.v, from_url(captures.at3)),
                     "", <<>>)

\* Hash::hash: what is fed to the hasher, in order
hash(p) == <<p.name, VersionToString(p.version), p.source_id>>

\* PartialEq::eq, through the derived PartialEq of PackageIdInner
eq(p, q) ==
    /\ p.name = q.name
    /\ VersionEq(p.version, q.version)
    /\ p.source_id = q.source_id

cmp_by_version_string(p, q) ==
    IF StrCmp(p.name, q.name) # "Equal" THEN StrCmp(p.name, q.name)
    ELSE IF StrCmp(VersionToString(p.version), VersionToString(q.version)) # "Equal"
    THEN StrCmp(VersionToString(p.version), VersionToString(q.version))
    ELSE SourceIdCmp(p.source_id, q.source_id)

\* Ord::cmp, through the derived Ord of PackageIdInner: fields in declaration order
cmp(p, q) ==
    IF StrCmp(p.name, q.name) # "Equal" THEN StrCmp(p.name, q.name)
    ELSE IF VersionCmp(p.version, q.version) # "Equal"
    THEN VersionCmp(p.version, q.version)
    ELSE SourceIdCmp(p.source_id, q.source_id)

\* ToSemver::to_semver for a string: the parsed version, or the string back
to_semver(version) ==
    LET r == VersionParse(version)
    IN  [ok |-> r.ok, v |-> r.v, err |-> IF r.ok THEN <<>> ELSE version]

new_checks_name(name, version, sid) ==
    LET v == to_semver(version)
    IN  IF name = <<>> \/ IndexOf(name, " ") # 0
        THEN Outcome("Err", NoPackageId, "InvalidNamespace", name)
        ELSE IF ~v.ok
        THEN Outcome("Err", NoPackageId, "InvalidVersion", v.err)
        ELSE Outcome("Ok", PackageId(name, v.v, sid), "", <<>>)

\* PackageId::new
new(name, version, sid) ==
    LET v == to_semver(version)
    IN  IF ~v.ok
        THEN Outcome("Err", NoPackageId, "InvalidVersion", v.err)
        ELSE Outcome("Ok", PackageId(name, v.v, sid), "", <<>>)

\* util::short_hash, taken as collision-free: the hashed tuple itself, tagged
short_hash(x) == <<"#", x>>

\* struct Metadata { metadata, extra_filename }
Metadata(metadata, extra_filename) ==
    [metadata |-> metadata, extra_filename |-> extra_filename]

NoMetadata == Metadata(<<>>, <<>>)

\* PackageId::generate_metadata
generate_metadata(p) ==
    LET metadata       == short_hash(<<p.name, VersionToString(p.version), p.source_id>>)
        extra_filename == <<"-">> \o metadata
    IN  Metadata(metadata, extra_filename)

mix_ignores_previous(m, t) ==
    LET new_metadata == short_hash(<<<<>>, t>>)
    IN  Metadata(new_metadata, <<"-">> \o new_metadata)

mix_stale_suffix(m, t) ==
    LET new_metadata == short_hash(<<m.metadata, t>>)
    IN  Metadata(new_metadata, m.extra_filename)

\* Metadata::mix
mix(m, t) ==
    LET new_metadata == short_hash(<<m.metadata, t>>)
    IN  Metadata(new_metadata, <<"-">> \o new_metadata)

CENTRAL_REPO == <<"h", "t", "t", "p", ":", "/", "/", "r", "u", "s", "t", "-", "l", "a", "n", "g", ".", "o", "r", "g", "/", "c", "e", "n", "t", "r", "a", "l", "-", "r", "e", "p", "o">>

fmt_always_origin(p) ==
    p.name \o <<" ", "v">> \o VersionToString(p.version)
    \o <<" ", "(">> \o SourceIdToString(p.source_id) \o <<")">>

\* Show::fmt
fmt(p) ==
    p.name \o <<" ", "v">> \o VersionToString(p.version)
    \o (IF SourceIdToString(p.source_id) # CENTRAL_REPO
        THEN <<" ", "(">> \o SourceIdToString(p.source_id) \o <<")">>
        ELSE <<>>)

-----------------------------------------------------------------------------
(* Inputs.                                                                 *)

NameChars == {"a", " "}

Foo == <<"f", "o", "o">>

\* non-empty names over NameChars, and "foo"
Names == (BoundedSeq(NameChars, MaxNameLen) \ {<<>>}) \cup {Foo}

V_1_0_0 == <<"1", ".", "0", ".", "0">>

V_1_9_0 == <<"1", ".", "9", ".", "0">>

V_1_10_0 == <<"1", ".", "1", "0", ".", "0">>

ValidVersions ==
    { V_1_0_0, V_1_9_0, V_1_10_0,
      <<"1", ".", "0", ".", "0", "-", "a">>,
      <<"1", ".", "0", ".", "0", "+", "b">>,
      <<"1", ".", "0", ".", "0", "+", "c">> }

V_1_0 == <<"1", ".", "0">>

RawVersions ==
    ValidVersions \cup
    { V_1_0, <<"1">>, <<"b", "a", "r">>, <<>>,
      <<"1", ".", "2", ".", "3", "-", "r", "c", ".", "1", "+", "b", ".", "7">> }

ExampleA == SourceId(<<"h", "t", "t", "p", ":", "/", "/", "e", "x", "a", "m", "p", "l", "e", ".", "c", "o", "m", "/", "a">>)

ExampleB == SourceId(<<"h", "t", "t", "p", ":", "/", "/", "e", "x", "a", "m", "p", "l", "e", ".", "c", "o", "m", "/", "b">>)

DefaultOrigin == SourceId(CENTRAL_REPO)

SourceIds == {DefaultOrigin, ExampleA, ExampleB}

\* strings handed to decode that encode did not write
Persisted ==
    { <<"f", "o", "o", "1", ".", "0", ".", "0", "(", "u", "r", "l", ")">>,
      <<"f", "o", "o", " ", "1", ".", "0", " ", "(", "u", "r", "l", ")">>,
      <<"f", "o", "o", " ", "1", ".", "0", ".", "0", " ", "u", "r", "l">>,
      <<"f", "o", "o", " ", "1", ".", "0", ".", "0", " ", "(", "u", "r", "l", ")">> }

\* values mixed into a fingerprint
Extras == {"A", "B"}

Args(names, versions, sids) ==
    [name : names, version : versions, sid : sids]

NoArgs == [name |-> <<>>, version |-> <<>>, sid |-> SourceId(<<>>)]

NoShown == [set |-> FALSE, s |-> <<>>]

-----------------------------------------------------------------------------
(* One identity: construct, encode, decode, display.                       *)

Init ==
    /\ pc = "start"
    /\ argA \in Args(Names, RawVersions, SourceIds)
    /\ argB = NoArgs
    /\ a = NoOutcome /\ b = NoOutcome
    /\ str = <<>> /\ strFrom = "none" /\ dec = NoOutcome
    /\ shown = NoShown
    /\ isEq = FALSE /\ ord = "Equal" /\ hashA = <<>> /\ hashB = <<>>
    /\ encA = <<>> /\ encB = <<>>
    /\ ma = NoMetadata /\ mb = NoMetadata /\ ha = <<>> /\ hb = <<>>

New ==
    /\ pc = "start"
    /\ a' = new(argA.name, argA.version, argA.sid)
    /\ pc' = "made"
    /\ UNCHANGED <<argA, argB, b, str, strFrom, dec, shown,
                   isEq, ord, hashA, hashB, encA, encB, ma, mb, ha, hb>>

Encode ==
    /\ a.tag = "Ok"
    /\ strFrom = "none"
    /\ str' = encode(a.id)
    /\ strFrom' = "encode"
    /\ UNCHANGED <<pc, argA, argB, a, b, dec, shown,
                   isEq, ord, hashA, hashB, encA, encB, ma, mb, ha, hb>>

Load ==
    /\ strFrom = "none"
    /\ \E s \in Persisted : str' = s
    /\ strFrom' = "external"
    /\ UNCHANGED <<pc, argA, argB, a, b, dec, shown,
                   isEq, ord, hashA, hashB, encA, encB, ma, mb, ha, hb>>

Decode ==
    /\ strFrom # "none"
    /\ dec.tag = "None"
    /\ dec' = decode(str)
    /\ UNCHANGED <<pc, argA, argB, a, b, str, strFrom, shown,
                   isEq, ord, hashA, hashB, encA, encB, ma, mb, ha, hb>>

Show ==
    /\ a.tag = "Ok"
    /\ ~shown.set
    /\ shown' = [set |-> TRUE, s |-> fmt(a.id)]
    /\ UNCHANGED <<pc, argA, argB, a, b, str, strFrom, dec,
                   isEq, ord, hashA, hashB, encA, encB, ma, mb, ha, hb>>

Next == New \/ Encode \/ Load \/ Decode \/ Show

Spec == Init /\ [][Next]_vars

-----------------------------------------------------------------------------
(* Claims about one identity.                                              *)

\* the grammar of the persisted form holds of s and its version token parses
WellFormed(s) ==
    /\ RegexCaptures(s).matched
    /\ VersionParse(RegexCaptures(s).at2).ok

\* C1: decoding the string that encode wrote for an identity made by
\* PackageId::new gives back an identity equal to it: same name, same
\* version, same source id.
C1_RoundTrip ==
    (strFrom = "encode" /\ dec.tag # "None") =>
        /\ dec.tag = "Ok"
        /\ eq(dec.id, a.id)
        /\ dec.id.name = a.id.name
        /\ dec.id.source_id = a.id.source_id

\* C2: decode of a string that does not match the grammar, or whose version
\* token is no semantic version, ends in an error value that carries the
\* string and names the failing stage; it neither aborts nor yields an identity.
C2_DecodeFailureIsError ==
    (dec.tag # "None" /\ ~WellFormed(str)) =>
        /\ dec.tag = "Err"
        /\ dec.msg.arg = str
        /\ dec.msg.kind = (IF RegexCaptures(str).matched THEN "version" ELSE "grammar")

\* C3: PackageId::new gives InvalidVersion with the raw version string exactly
\* when that string is no semantic version, and otherwise the identity of the
\* given name, the parsed version and the given source id, whatever the name.
C3_NewValidatesVersionOnly ==
    (a.tag # "None") =>
        IF VersionParse(argA.version).ok
        THEN /\ a.tag = "Ok"
             /\ a.id.name = argA.name
             /\ a.id.version = VersionParse(argA.version).v
             /\ a.id.source_id = argA.sid
        ELSE /\ a.tag = "Err"
             /\ a.msg = [kind |-> "InvalidVersion", arg |-> argA.version]

\* new("foo", "1.0", registry) has failed, and so has new with "1", "bar", ""
C3_Witness ==
    /\ a.tag = "Err"
    /\ argA.name = Foo
    /\ argA.version = V_1_0
    /\ argA.sid = DefaultOrigin

-----------------------------------------------------------------------------
(* Two identities: equality, order, hash and encoding side by side.        *)

PairNames == BoundedSeq(NameChars, MaxNameLen) \ {<<>>}

InitPair(names, versions, sids) ==
    /\ pc = "start"
    /\ argA \in Args(names, versions, sids)
    /\ argB \in Args(names, versions, sids)
    /\ a = NoOutcome /\ b = NoOutcome
    /\ str = <<>> /\ strFrom = "none" /\ dec = NoOutcome
    /\ shown = NoShown
    /\ isEq = FALSE /\ ord = "Equal" /\ hashA = <<>> /\ hashB = <<>>
    /\ encA = <<>> /\ encB = <<>>
    /\ ma = NoMetadata /\ mb = NoMetadata /\ ha = <<>> /\ hb = <<>>

InitCmp == InitPair(PairNames, ValidVersions, {ExampleA, ExampleB})

Construct ==
    /\ pc = "start"
    /\ a' = new(argA.name, argA.version, argA.sid)
    /\ b' = new(argB.name, argB.version, argB.sid)
    /\ pc' = "made"
    /\ UNCHANGED <<argA, argB, str, strFrom, dec, shown,
                   isEq, ord, hashA, hashB, encA, encB, ma, mb, ha, hb>>

CompareEq ==
    /\ pc = "made"
    /\ a.tag = "Ok" /\ b.tag = "Ok"
    /\ isEq' = eq(a.id, b.id)
    /\ pc' = "eq"
    /\ UNCHANGED <<argA, argB, a, b, str, strFrom, dec, shown,
                   ord, hashA, hashB, encA, encB, ma, mb, ha, hb>>

CompareOrd ==
    /\ pc = "eq"
    /\ ord' = cmp(a.id, b.id)
    /\ pc' = "cmp"
    /\ UNCHANGED <<argA, argB, a, b, str, strFrom, dec, shown,
                   isEq, hashA, hashB, encA, encB, ma, mb, ha, hb>>

HashBoth ==
    /\ pc = "cmp"
    /\ hashA' = hash(a.id)
    /\ hashB' = hash(b.id)
    /\ pc' = "hash"
    /\ UNCHANGED <<argA, argB, a, b, str, strFrom, dec, shown,
                   isEq, ord, encA, encB, ma, mb, ha, hb>>

EncodeBoth ==
    /\ pc = "hash"
    /\ encA' = encode(a.id)
    /\ encB' = encode(b.id)
    /\ pc' = "done"
    /\ UNCHANGED <<argA, argB, a, b, str, strFrom, dec, shown,
                   isEq, ord, hashA, hashB, ma, mb, ha, hb>>

NextCmp == Construct \/ CompareEq \/ CompareOrd \/ HashBoth \/ EncodeBoth

SpecCmp == InitCmp /\ [][NextCmp]_vars

Reverse(o) == IF o = "Less" THEN "Greater" ELSE IF o = "Greater" THEN "Less" ELSE "Equal"

\* C4: two identities are == exactly when name, version and source id are
\* equal, and == identities have equal hashes and compare Equal.
C4_EqHashCmpConsistent ==
    (pc = "done") =>
        /\ isEq = (/\ a.id.name = b.id.name
                   /\ VersionEq(a.id.version, b.id.version)
                   /\ a.id.source_id = b.id.source_id)
        /\ (isEq => hashA = hashB)
        /\ (isEq => ord = "Equal")

\* C5: the order is total and lexicographic by (name, version, source id):
\* by name when the names differ, by the numeric order of the versions when
\* only the names agree, by the source ids' order when name and version agree.
C5_OrderLexicographic ==
    (pc = "done") =>
        /\ ord \in {"Less", "Equal", "Greater"}
        /\ ord = Reverse(cmp(b.id, a.id))
        /\ (a.id.name # b.id.name => ord = StrCmp(a.id.name, b.id.name))
        /\ (/\ a.id.name = b.id.name
             /\ a.id.version.major = b.id.version.major
             /\ a.id.version.minor < b.id.version.minor
                => ord = "Less")
        /\ (a.id.name = b.id.name /\ VersionCmp(a.id.version, b.id.version) # "Equal"
                => ord = VersionCmp(a.id.version, b.id.version))
        /\ (a.id.name = b.id.name /\ VersionCmp(a.id.version, b.id.version) = "Equal"
                => ord = SourceIdCmp(a.id.source_id, b.id.source_id))

\* 1.9.0 has been ordered before 1.10.0 of the same name, against the order
\* of the two version strings
C5_Witness ==
    /\ pc = "done"
    /\ a.id.name = b.id.name
    /\ argA.version = V_1_9_0
    /\ argB.version = V_1_10_0
    /\ ord = "Less"
    /\ StrCmp(argA.version, argB.version) = "Greater"

\* C7: two distinct identities made by PackageId::new never encode to the
\* same canonical string.
C7_EncodeInjective ==
    (pc = "done" /\ a.id # b.id) => encA # encB

\* two identities whose names hold spaces and differ have been encoded
C7_Witness ==
    /\ pc = "done"
    /\ a.id.name = <<"a", " ">>
    /\ b.id.name = <<" ", "a">>
    /\ a.id.version = b.id.version
    /\ encA # encB

-----------------------------------------------------------------------------
(* Fingerprints of two identities, each mixed with its own values.         *)

MetaNames == {<<"a">>, <<"a", " ">>}

MetaVersions == {v \in ValidVersions : VersionParse(v).v.minor = 0}

InitMeta == InitPair(MetaNames, MetaVersions, {DefaultOrigin, ExampleA})

GenerateA ==
    /\ pc = "made"
    /\ a.tag = "Ok"
    /\ ma = NoMetadata
    /\ ma' = generate_metadata(a.id)
    /\ UNCHANGED <<pc, argA, argB, a, b, str, strFrom, dec, shown,
                   isEq, ord, hashA, hashB, encA, encB, mb, ha, hb>>

GenerateB ==
    /\ pc = "made"
    /\ b.tag = "Ok"
    /\ mb = NoMetadata
    /\ mb' = generate_metadata(b.id)
    /\ UNCHANGED <<pc, argA, argB, a, b, str, strFrom, dec, shown,
                   isEq, ord, hashA, hashB, encA, encB, ma, ha, hb>>

MixA ==
    /\ ma # NoMetadata
    /\ Len(ha) < MaxMix
    /\ \E t \in Extras :
          /\ ma' = mix(ma, t)
          /\ ha' = Append(ha, t)
    /\ UNCHANGED <<pc, argA, argB, a, b, str, strFrom, dec, shown,
                   isEq, ord, hashA, hashB, encA, encB, mb, hb>>

MixB ==
    /\ mb # NoMetadata
    /\ Len(hb) < MaxMix
    /\ \E t \in Extras :
          /\ mb' = mix(mb, t)
          /\ hb' = Append(hb, t)
    /\ UNCHANGED <<pc, argA, argB, a, b, str, strFrom, dec, shown,
                   isEq, ord, hashA, hashB, encA, encB, ma, ha>>

NextMeta == Construct \/ GenerateA \/ GenerateB \/ MixA \/ MixB

SpecMeta == InitMeta /\ [][NextMeta]_vars

\* C8: for two == identities and one sequence of mixed values, generate_metadata
\* followed by mixing that sequence gives equal Metadata on both sides.
C8_FingerprintDeterministic ==
    (/\ ma # NoMetadata /\ mb # NoMetadata
     /\ eq(a.id, b.id)
     /\ ha = hb) => ma = mb

\* C9: starting from generate_metadata of the same identity, two different
\* sequences of mixed values give different digests.
C9_MixDiscriminates ==
    (/\ ma # NoMetadata /\ mb # NoMetadata
     /\ a.id = b.id
     /\ ha # hb) => ma.metadata # mb.metadata

\* the same identity has been mixed with A then B on one side and with
\* B then A on the other
C9_Witness ==
    /\ ma # NoMetadata /\ mb # NoMetadata
    /\ a.id = b.id
    /\ ha = <<"A", "B">>
    /\ hb = <<"B", "A">>

\* the digest of identity p after mixing the values of h in order
RECURSIVE DigestAfter(_, _)
DigestAfter(p, h) ==
    IF h = <<>>
    THEN short_hash(<<p.name, VersionToString(p.version), p.source_id>>)
    ELSE short_hash(<<DigestAfter(p, SubSeq(h, 1, Len(h) - 1)), h[Len(h)]>>)

\* C10: after generate_metadata and any number of mixes the suffix is "-"
\* followed by the digest, the digest is the short hash of (previous digest,
\* extra) for each mixed value in turn, and a mix leaves the identity as it was.
C10_SuffixFollowsDigest ==
    /\ [](ma # NoMetadata =>
            /\ ma.extra_filename = <<"-">> \o ma.metadata
            /\ ma.metadata = DigestAfter(a.id, ha))
    /\ [][MixA => a' = a /\ ma'.extra_filename = <<"-">> \o ma'.metadata]_vars

\* two values have been mixed into the fingerprint of an identity
C10_Witness ==
    /\ ma # NoMetadata
    /\ Len(ha) = MaxMix
    /\ ma.extra_filename = <<"-">> \o ma.metadata

====
